---- MODULE Spec2Model ----
(***************************************************************************)
(* Session-lifecycle bookkeeping of the vision-agents front-ends.          *)
(*                                                                         *)
(*   main.py : REST server, map active_sessions (call_id -> session info). *)
(*   app.py  : WebSocket server, maps ACTIVE_SESSIONS (session_id -> agent)*)
(*             and BACKGROUND_TASKS (session_id -> asyncio task).          *)
(*                                                                         *)
(* The two servers are separate processes: SpecMain and SpecApp are their  *)
(* state machines.  A step of either machine is one run of a coroutine     *)
(* between two awaits (asyncio runs it without interruption).              *)
(***************************************************************************)
EXTENDS Integers, Sequences, FiniteSets, TLC

(***************************************************************************)
(* Bounds.                                                                 *)
(***************************************************************************)
\* number of POST requests the REST server receives (one uuid4 each)
MaxCalls == 2

CallIds == 1..MaxCalls

\* number of WebSocket connections the WebSocket server receives (one uuid4 each)
MaxSessions == 1

Sessions == 1..MaxSessions

\* number of texts a client sends on one connection
MaxTexts == 2

\* app.py: the three commands, and a text that is none of them
Texts == {"ping", "status", "disconnect", "hello"}

\* main.py: the four endpoints' agent types; request call types (strings)
AgentTypes == {"golf", "general", "fitness", "yoga"}

CallTypes == {"default", "video"}

None == "None"

VARIABLES
    active_sessions,   \* main.py dict, as the sequence of its items in insertion order
    post_pc,           \* per POST request (named by its call_id): where the handler is
    post_req,          \* per POST request: its locals call_type and the endpoint's type
    sdk_calls,         \* per agent (named by call_id): SDK methods invoked on it so far
    main_resp,         \* the response sent last by the REST server
    deleted,           \* call_ids for which DELETE answered 200
    main_up            \* FALSE once the lifespan shutdown block has run

main_vars == <<active_sessions, post_pc, post_req, sdk_calls, main_resp, deleted, main_up>>

VARIABLES
    ACTIVE_SESSIONS,   \* app.py dict session_id -> agent: its keys (the agent of s is named s)
    BACKGROUND_TASKS,  \* app.py dict session_id -> task: its keys (the task of s is named s)
    ws_pc,             \* per connection: the await websocket_endpoint is suspended at
    ws_open,           \* per connection: FALSE once a send or receive found the client gone
    ws_sent,           \* per connection: the messages delivered to the client, in order
    ws_data,           \* per connection: the local data (the text received in this iteration)
    ws_out,            \* per connection: the message whose send_json is awaited
    ws_texts,          \* per connection: number of texts received
    task,              \* per session: the await agent_worker is suspended at, or none/pending/done
    task_cancel,       \* per session: task.cancel() was called and CancelledError is not yet thrown
    task_outcome,      \* per session: how the task ends once its finally block is through
    finish_called,     \* agents on which agent.finish() has been called
    worker_calls,      \* per session: the calls agent_worker has made on its agent, in order
    join_held,         \* per session: agent_worker is inside its `async with await agent.join(call)`
    stored,            \* per session: the dicts its websocket_endpoint has assigned into
    del_pc,            \* per session id: the await delete_session is suspended at
    del_local,         \* per session id: delete_session's locals agent and task (present or None)
    del_resp,          \* per session id: the last answer of DELETE /sessions/{id}
    life_pc,           \* the await the lifespan shutdown block is suspended at
    life_cur,          \* lifespan: the session_id of the loop iteration that is suspended
    life_tasks,        \* lifespan: items of the BACKGROUND_TASKS snapshot not yet visited
    life_sessions      \* lifespan: keys of the ACTIVE_SESSIONS snapshot not yet visited

app_vars == <<ACTIVE_SESSIONS, BACKGROUND_TASKS, ws_pc, ws_open, ws_sent, ws_data, ws_out, ws_texts, task,
              task_cancel, task_outcome, finish_called, worker_calls, join_held, stored, del_pc,
              del_local, del_resp, life_pc, life_cur, life_tasks, life_sessions>>

vars == <<main_vars, app_vars>>

(***************************************************************************)
(* The dict active_sessions.                                               *)
(***************************************************************************)
Keys(d) == {d[i].call_id : i \in 1..Len(d)}

Has(d, c) == c \in Keys(d)

Get(d, c) == d[CHOOSE i \in 1..Len(d) : d[i].call_id = c]

RECURSIVE Pop(_, _)
\* dict.pop(key): the items without the key's item, order kept
Pop(d, c) ==
    IF d = <<>> THEN <<>>
    ELSE IF Head(d).call_id = c THEN Pop(Tail(d), c)
    ELSE <<Head(d)>> \o Pop(Tail(d), c)

\* d[key] = value for a key that is new (uuid4) or present
Put(d, item) ==
    IF Has(d, item.call_id)
    THEN [i \in 1..Len(d) |-> IF d[i].call_id = item.call_id THEN item ELSE d[i]]
    ELSE Append(d, item)

NoReq == [call_type |-> None, agent_type |-> None]

NoResp == [op |-> "none", call_id |-> 0, status |-> 0, call_type |-> None,
           agent_type |-> None, session_status |-> None, count |-> 0, sessions |-> <<>>]

Resp(op, c, st) == [NoResp EXCEPT !.op = op, !.call_id = c, !.status = st]

InitMain ==
    /\ active_sessions = <<>>
    /\ post_pc = [c \in CallIds |-> "idle"]
    /\ post_req = [c \in CallIds |-> NoReq]
    /\ sdk_calls = [c \in CallIds |-> {}]
    /\ main_resp = NoResp
    /\ deleted = {}
    /\ main_up = TRUE

(***************************************************************************)
(* POST /golf, /general, /fitness, /yoga (the four handlers differ in the  *)
(* agent factory and the agent_type string only).                          *)
(***************************************************************************)
\* the except clause: HTTPException(500); active_sessions is not touched (the
\* handler's locals are gone with it)
create_session_fail(c) ==
    /\ post_pc' = [post_pc EXCEPT ![c] = "returned_500"]
    /\ post_req' = [post_req EXCEPT ![c] = NoReq]
    /\ main_resp' = Resp("create_session", c, 500)
    /\ UNCHANGED <<active_sessions, deleted, main_up>>

\* uuid4, request.call_type, create_*_agent() (no await inside), then the
\* call of agent.create_user(); the Agent constructor may raise
create_session_begin(c, atype, ctype) ==
    /\ main_up
    /\ UNCHANGED app_vars
    /\ post_pc[c] = "idle"
    /\ \A d \in CallIds : d < c => post_pc[d] # "idle"
    /\ \/ /\ post_req' = [post_req EXCEPT ![c] = [call_type |-> ctype, agent_type |-> atype]]
          /\ post_pc' = [post_pc EXCEPT ![c] = "create_user"]
          /\ sdk_calls' = [sdk_calls EXCEPT ![c] = @ \cup {"create_user"}]
          /\ UNCHANGED <<active_sessions, main_resp, deleted, main_up>>
       \/ /\ create_session_fail(c)
          /\ UNCHANGED sdk_calls

\* agent.create_user() returned or raised
create_session_create_user(c) ==
    /\ main_up
    /\ UNCHANGED app_vars
    /\ post_pc[c] = "create_user"
    /\ \/ /\ post_pc' = [post_pc EXCEPT ![c] = "create_call"]
          /\ sdk_calls' = [sdk_calls EXCEPT ![c] = @ \cup {"create_call"}]
          /\ UNCHANGED <<active_sessions, post_req, main_resp, deleted, main_up>>
       \/ /\ create_session_fail(c)
          /\ UNCHANGED sdk_calls

\* mutant: the session is stored as soon as the call exists, before the demo URL
create_session_create_call_early(c) ==
    /\ main_up
    /\ UNCHANGED app_vars
    /\ post_pc[c] = "create_call"
    /\ post_pc' = [post_pc EXCEPT ![c] = "get_demo_url"]
    /\ sdk_calls' = [sdk_calls EXCEPT ![c] = @ \cup {"get_demo_url"}]
    /\ active_sessions' = Append(active_sessions,
                                 [call_id |-> c, agent |-> c,
                                  call_type |-> post_req[c].call_type,
                                  agent_type |-> post_req[c].agent_type])
    /\ UNCHANGED <<post_req, main_resp, deleted, main_up>>

\* agent.create_call(call_type, call_id) returned or raised
create_session_create_call(c) ==
    /\ main_up
    /\ UNCHANGED app_vars
    /\ post_pc[c] = "create_call"
    /\ \/ /\ post_pc' = [post_pc EXCEPT ![c] = "get_demo_url"]
          /\ sdk_calls' = [sdk_calls EXCEPT ![c] = @ \cup {"get_demo_url"}]
          /\ UNCHANGED <<active_sessions, post_req, main_resp, deleted, main_up>>
       \/ /\ create_session_fail(c)
          /\ UNCHANGED sdk_calls

\* the dict item the handler stores
session_item(c, req) ==
    [call_id |-> c, agent |-> c, call_type |-> req.call_type, agent_type |-> req.agent_type]

\* the CallResponse the handler returns
call_response(c, req) ==
    [Resp("create_session", c, 201) EXCEPT !.call_type = req.call_type,
                                           !.agent_type = req.agent_type]

\* agent.edge.get_demo_url(call) returned (store the session, answer 201) or raised
create_session_store(c) ==
    /\ main_up
    /\ UNCHANGED app_vars
    /\ post_pc[c] = "get_demo_url"
    /\ \/ /\ active_sessions' = Put(active_sessions, session_item(c, post_req[c]))
          /\ post_pc' = [post_pc EXCEPT ![c] = "returned_201"]
          /\ main_resp' = call_response(c, post_req[c])
          /\ UNCHANGED <<post_req, sdk_calls, deleted, main_up>>
       \/ /\ create_session_fail(c)
          /\ UNCHANGED sdk_calls

(***************************************************************************)
(* GET /, GET /session/{call_id}, GET /sessions, DELETE /session/{call_id} *)
(* (no await in any of them: one step each).                               *)
(***************************************************************************)
root ==
    /\ main_up
    /\ UNCHANGED app_vars
    /\ main_resp' = [Resp("root", 0, 200) EXCEPT !.count = Len(active_sessions)]
    /\ UNCHANGED <<active_sessions, post_pc, post_req, sdk_calls, deleted, main_up>>

\* mutant: the two fields swapped
get_session_info_response_swapped(d, c) ==
    IF ~Has(d, c) THEN Resp("get_session_info", c, 404)
    ELSE [Resp("get_session_info", c, 200) EXCEPT !.call_type = Get(d, c).agent_type,
                                                  !.agent_type = Get(d, c).call_type,
                                                  !.session_status = "active"]

get_session_info_response(d, c) ==
    IF ~Has(d, c) THEN Resp("get_session_info", c, 404)
    ELSE [Resp("get_session_info", c, 200) EXCEPT !.call_type = Get(d, c).call_type,
                                                  !.agent_type = Get(d, c).agent_type,
                                                  !.session_status = "active"]

get_session_info(c) ==
    /\ main_up
    /\ UNCHANGED app_vars
    /\ main_resp' = get_session_info_response(active_sessions, c)
    /\ UNCHANGED <<active_sessions, post_pc, post_req, sdk_calls, deleted, main_up>>

\* the list comprehension over active_sessions.items()
sessions_list(d) ==
    [i \in 1..Len(d) |-> [call_id |-> d[i].call_id, agent_type |-> d[i].agent_type,
                          call_type |-> d[i].call_type]]

list_sessions ==
    /\ main_up
    /\ UNCHANGED app_vars
    /\ main_resp' = [Resp("list_sessions", 0, 200) EXCEPT
                        !.count = Len(active_sessions),
                        !.sessions = sessions_list(active_sessions)]
    /\ UNCHANGED <<active_sessions, post_pc, post_req, sdk_calls, deleted, main_up>>

\* mutant: the whole dict is cleared
end_session_clear(c) ==
    /\ main_up
    /\ UNCHANGED app_vars
    /\ IF ~Has(active_sessions, c)
       THEN /\ main_resp' = Resp("end_session", c, 404)
            /\ UNCHANGED <<active_sessions, deleted>>
       ELSE /\ active_sessions' = <<>>
            /\ main_resp' = [Resp("end_session", c, 200) EXCEPT
                                !.agent_type = Get(active_sessions, c).agent_type]
            /\ deleted' = deleted \cup {c}
    /\ UNCHANGED <<post_pc, post_req, sdk_calls, main_up>>

\* mutant: the entry is read, not popped
end_session_nopop(c) ==
    /\ main_up
    /\ UNCHANGED app_vars
    /\ IF ~Has(active_sessions, c)
       THEN /\ main_resp' = Resp("end_session", c, 404)
            /\ UNCHANGED <<active_sessions, deleted>>
       ELSE /\ active_sessions' = active_sessions
            /\ main_resp' = [Resp("end_session", c, 200) EXCEPT
                                !.agent_type = Get(active_sessions, c).agent_type]
            /\ deleted' = deleted \cup {c}
    /\ UNCHANGED <<post_pc, post_req, sdk_calls, main_up>>

end_session(c) ==
    /\ main_up
    /\ UNCHANGED app_vars
    /\ IF ~Has(active_sessions, c)
       THEN /\ main_resp' = Resp("end_session", c, 404)
            /\ UNCHANGED <<active_sessions, deleted>>
       ELSE /\ active_sessions' = Pop(active_sessions, c)
            /\ main_resp' = [Resp("end_session", c, 200) EXCEPT
                                !.agent_type = Get(active_sessions, c).agent_type]
            /\ deleted' = deleted \cup {c}
    /\ UNCHANGED <<post_pc, post_req, sdk_calls, main_up>>

RECURSIVE PopAll(_, _)
\* the shutdown loop: pop every key of the snapshot list(active_sessions.keys())
PopAll(d, ks) ==
    IF ks = <<>> THEN d ELSE PopAll(Pop(d, Head(ks)), Tail(ks))

\* the lifespan shutdown block (no await in it)
main_lifespan_shutdown ==
    /\ main_up
    /\ UNCHANGED app_vars
    /\ active_sessions' = PopAll(active_sessions,
                                 [i \in 1..Len(active_sessions) |-> active_sessions[i].call_id])
    /\ main_up' = FALSE
    /\ UNCHANGED <<post_pc, post_req, sdk_calls, main_resp, deleted>>

(***************************************************************************)
(* app.py: the WebSocket server.                                           *)
(***************************************************************************)
NoMsg == [type |-> None, session_id |-> 0, status |-> None, worker_status |-> None,
          your_message |-> None]

Msg(type) == [NoMsg EXCEPT !.type = type]

InitApp ==
    /\ ACTIVE_SESSIONS = {}
    /\ BACKGROUND_TASKS = {}
    /\ ws_pc = [s \in Sessions |-> "idle"]
    /\ ws_open = [s \in Sessions |-> TRUE]
    /\ ws_sent = [s \in Sessions |-> <<>>]
    /\ ws_data = [s \in Sessions |-> None]
    /\ ws_out = [s \in Sessions |-> NoMsg]
    /\ ws_texts = [s \in Sessions |-> 0]
    /\ task = [s \in Sessions |-> "none"]
    /\ task_cancel = [s \in Sessions |-> FALSE]
    /\ task_outcome = [s \in Sessions |-> None]
    /\ finish_called = {}
    /\ worker_calls = [s \in Sessions |-> <<>>]
    /\ join_held = [s \in Sessions |-> FALSE]
    /\ stored = [s \in Sessions |-> {}]
    /\ del_pc = [s \in Sessions |-> "idle"]
    /\ del_local = [s \in Sessions |-> [agent |-> FALSE, task |-> FALSE]]
    /\ del_resp = [s \in Sessions |-> None]
    /\ life_pc = "serving"
    /\ life_cur = 0
    /\ life_tasks = {}
    /\ life_sessions = {}

\* task.done()
done(s) == task[s] = "done"

\* the variables a step of one coroutine leaves alone
ws_unchanged == UNCHANGED <<main_vars, del_pc, del_local, del_resp, life_pc, life_cur, life_tasks,
                            life_sessions, finish_called, task_outcome, worker_calls, join_held>>

worker_unchanged == UNCHANGED <<main_vars, stored, ws_pc, ws_open, ws_sent, ws_data, ws_out, ws_texts, del_pc, del_local, del_resp,
                                life_pc, life_cur, life_tasks, life_sessions>>

del_unchanged == UNCHANGED <<main_vars, stored, ws_pc, ws_open, ws_sent, ws_data, ws_out, ws_texts, task, task_outcome,
                             worker_calls, join_held,
                             life_pc, life_cur, life_tasks, life_sessions>>

life_unchanged == UNCHANGED <<main_vars, stored, ws_pc, ws_open, ws_sent, ws_data, ws_out, ws_texts, task, task_outcome,
                              worker_calls, join_held,
                              del_pc, del_local, del_resp, BACKGROUND_TASKS>>

(***************************************************************************)
(* agent_worker(session_id), run as an asyncio task.                       *)
(***************************************************************************)
\* the awaits of the try body, in program order
WorkerBody == <<"create_call", "join", "open_demo", "simple_response", "finish">>

BodyIndex(st) == CHOOSE i \in 1..Len(WorkerBody) : WorkerBody[i] = st

\* a call agent_worker makes on its agent: the method, its arguments (call_type
\* keeps its default, call_id = session_id), the block it is made in and whether
\* the join context is held; result: how its await ended ("awaited" until then)
WorkerCall(op, s, site, held) ==
    [op |-> op,
     call_type |-> IF op = "create_call" THEN "default" ELSE None,
     call_id |-> IF op = "create_call" THEN s ELSE 0,
     site |-> site,
     held |-> held,
     result |-> "awaited"]

\* the await of the last call made has ended with `result`
Ended(calls, result) == [calls EXCEPT ![Len(calls)].result = result]

\* the finally block is entered (the with block, if entered, has been left):
\* agent.finish() is called and awaited; how the task will end is fixed by how
\* the body was left: a re-raised CancelledError ends the task cancelled
worker_enter_finally(s, result) ==
    /\ task' = [task EXCEPT ![s] = "final_finish"]
    /\ join_held' = [join_held EXCEPT ![s] = FALSE]
    /\ worker_calls' = [worker_calls EXCEPT ![s] =
                           Append(Ended(@, result), WorkerCall("finish", s, "finally", FALSE))]
    /\ task_outcome' = [task_outcome EXCEPT ![s] =
                           IF result = "cancelled" THEN "cancelled" ELSE "returned"]
    /\ finish_called' = finish_called \cup {s}
    /\ task_cancel' = [task_cancel EXCEPT ![s] = FALSE]
    /\ UNCHANGED <<ACTIVE_SESSIONS, BACKGROUND_TASKS>>

\* the first step of the task: cancelled before it ran (the coroutine body never
\* starts), or the lookup of the agent and the call of agent.create_call
worker_start(s) ==
    /\ life_pc # "done"
    /\ task[s] = "pending"
    /\ IF task_cancel[s]
       THEN /\ task' = [task EXCEPT ![s] = "done"]
            /\ task_outcome' = [task_outcome EXCEPT ![s] = "cancelled"]
            /\ task_cancel' = [task_cancel EXCEPT ![s] = FALSE]
       ELSE IF s \notin ACTIVE_SESSIONS
       THEN /\ task' = [task EXCEPT ![s] = "done"]
            /\ task_outcome' = [task_outcome EXCEPT ![s] = "returned"]
            /\ UNCHANGED task_cancel
       ELSE /\ task' = [task EXCEPT ![s] = "create_call"]
            /\ UNCHANGED <<task_outcome, task_cancel>>
    /\ worker_calls' = IF task'[s] = "create_call"
                       THEN [worker_calls EXCEPT ![s] = Append(@, WorkerCall("create_call", s, "try", FALSE))]
                       ELSE worker_calls
    /\ UNCHANGED <<ACTIVE_SESSIONS, BACKGROUND_TASKS, finish_called, join_held>>
    /\ worker_unchanged

\* an await of the try body returns: the next call of the body, or, after the
\* with block, the finally block
worker_step(s) ==
    /\ life_pc # "done"
    /\ task[s] \in {WorkerBody[i] : i \in 1..Len(WorkerBody)}
    /\ ~task_cancel[s]
    /\ IF task[s] = "finish"
       THEN worker_enter_finally(s, "returned")
       ELSE /\ task' = [task EXCEPT ![s] = WorkerBody[BodyIndex(task[s]) + 1]]
            /\ join_held' = [join_held EXCEPT ![s] = @ \/ task[s] = "join"]
            /\ worker_calls' = [worker_calls EXCEPT ![s] =
                                   Append(Ended(@, "returned"),
                                          WorkerCall(task'[s], s, "try", join_held'[s]))]
            /\ finish_called' = IF task'[s] = "finish" THEN finish_called \cup {s}
                                ELSE finish_called
            /\ UNCHANGED <<task_outcome, task_cancel, ACTIVE_SESSIONS, BACKGROUND_TASKS>>
    /\ worker_unchanged

\* mutant: an Exception raised by an await of the try body is swallowed on the
\* spot and the body goes on with its next call
worker_error_continues(s) ==
    /\ life_pc # "done"
    /\ task[s] \in {WorkerBody[i] : i \in 1..Len(WorkerBody)}
    /\ ~task_cancel[s]
    /\ IF task[s] = "finish"
       THEN worker_enter_finally(s, "raised")
       ELSE /\ task' = [task EXCEPT ![s] = WorkerBody[BodyIndex(task[s]) + 1]]
            /\ join_held' = [join_held EXCEPT ![s] = @ \/ task[s] = "join"]
            /\ worker_calls' = [worker_calls EXCEPT ![s] =
                                   Append(Ended(@, "raised"),
                                          WorkerCall(task'[s], s, "try", join_held'[s]))]
            /\ finish_called' = IF task'[s] = "finish" THEN finish_called \cup {s}
                                ELSE finish_called
            /\ UNCHANGED <<task_outcome, task_cancel, ACTIVE_SESSIONS, BACKGROUND_TASKS>>
    /\ worker_unchanged

\* an await of the try body raises an Exception: logged and swallowed
worker_error(s) ==
    /\ life_pc # "done"
    /\ task[s] \in {WorkerBody[i] : i \in 1..Len(WorkerBody)}
    /\ ~task_cancel[s]
    /\ worker_enter_finally(s, "raised")
    /\ worker_unchanged

\* CancelledError is thrown into an await of the try body: re-raised
worker_cancelled(s) ==
    /\ life_pc # "done"
    /\ task[s] \in {WorkerBody[i] : i \in 1..Len(WorkerBody)}
    /\ task_cancel[s]
    /\ worker_enter_finally(s, "cancelled")
    /\ worker_unchanged

\* mutant: a cancellation of the finally block's finish() escapes it, so the
\* two pops are skipped and the task ends cancelled
worker_cleanup_cancel_escapes(s) ==
    /\ life_pc # "done"
    /\ task[s] = "final_finish"
    /\ IF task_cancel[s]
       THEN /\ task_outcome' = [task_outcome EXCEPT ![s] = "cancelled"]
            /\ UNCHANGED <<ACTIVE_SESSIONS, BACKGROUND_TASKS>>
       ELSE /\ ACTIVE_SESSIONS' = ACTIVE_SESSIONS \ {s}
            /\ BACKGROUND_TASKS' = BACKGROUND_TASKS \ {s}
            /\ UNCHANGED task_outcome
    /\ task' = [task EXCEPT ![s] = "done"]
    /\ worker_calls' = [worker_calls EXCEPT ![s] = Ended(@, "discarded")]
    /\ task_cancel' = [task_cancel EXCEPT ![s] = FALSE]
    /\ UNCHANGED <<finish_called, join_held>>
    /\ worker_unchanged

\* the finish() of the finally block returns, raises or is cancelled (bare
\* except: pass); both maps are popped and the task ends
worker_cleanup(s) ==
    /\ life_pc # "done"
    /\ task[s] = "final_finish"
    /\ ACTIVE_SESSIONS' = ACTIVE_SESSIONS \ {s}
    /\ BACKGROUND_TASKS' = BACKGROUND_TASKS \ {s}
    /\ task' = [task EXCEPT ![s] = "done"]
    /\ worker_calls' = [worker_calls EXCEPT ![s] = Ended(@, "discarded")]
    /\ task_cancel' = [task_cancel EXCEPT ![s] = FALSE]
    /\ UNCHANGED <<task_outcome, finish_called, join_held>>
    /\ worker_unchanged

(***************************************************************************)
(* websocket_endpoint.                                                     *)
(***************************************************************************)
\* websocket.send_json(msg) returns: msg is delivered
ws_delivered(s, msg) ==
    /\ ws_open[s]
    /\ ws_sent' = [ws_sent EXCEPT ![s] = Append(@, msg)]
    /\ UNCHANGED ws_open

\* a send or receive finds the client gone and raises
ws_gone(s) ==
    /\ ws_open' = [ws_open EXCEPT ![s] = FALSE]
    /\ UNCHANGED ws_sent

\* the handler is suspended at the await `next`, a message `out` being sent
ws_await(s, next, out) ==
    /\ ws_pc' = [ws_pc EXCEPT ![s] = next]
    /\ ws_out' = [ws_out EXCEPT ![s] = out]

\* mutant: the finally block pops the two maps without cancelling the task
ws_finally_nocancel(s) ==
    /\ ws_out' = [ws_out EXCEPT ![s] = NoMsg]
    /\ ws_data' = [ws_data EXCEPT ![s] = None]
    /\ ACTIVE_SESSIONS' = ACTIVE_SESSIONS \ {s}
    /\ BACKGROUND_TASKS' = BACKGROUND_TASKS \ {s}
    /\ ws_pc' = [ws_pc EXCEPT ![s] = "returned"]
    /\ UNCHANGED task_cancel

\* the finally block up to its await (or, with nothing to await, to the end)
ws_finally(s) ==
    /\ ws_out' = [ws_out EXCEPT ![s] = NoMsg]
    /\ ws_data' = [ws_data EXCEPT ![s] = None]
    /\ IF s \in BACKGROUND_TASKS /\ ~done(s)
       THEN /\ task_cancel' = [task_cancel EXCEPT ![s] = TRUE]
            /\ ws_pc' = [ws_pc EXCEPT ![s] = "await_task"]
            /\ UNCHANGED <<ACTIVE_SESSIONS, BACKGROUND_TASKS>>
       ELSE /\ ACTIVE_SESSIONS' = ACTIVE_SESSIONS \ {s}
            /\ BACKGROUND_TASKS' = BACKGROUND_TASKS \ {s}
            /\ ws_pc' = [ws_pc EXCEPT ![s] = "returned"]
            /\ UNCHANGED task_cancel

session_created(s) ==
    [Msg("session_created") EXCEPT !.session_id = s, !.status = "initializing"]

agent_ready(s) ==
    [Msg("agent_ready") EXCEPT !.session_id = s, !.status = "ready"]

\* a new connection: uuid4, accept, and the send of session_created is awaited
ws_connect(s) ==
    /\ life_pc = "serving"
    /\ ws_pc[s] = "idle"
    /\ \A r \in Sessions : r < s => ws_pc[r] # "idle"
    /\ ws_await(s, "send_created", session_created(s))
    /\ UNCHANGED <<ws_open, ws_sent, ws_data, ws_texts, task, task_cancel, ACTIVE_SESSIONS,
                   BACKGROUND_TASKS, stored>>
    /\ ws_unchanged

\* the outer except clause: the send of an error message is awaited
ws_outer_except(s) == ws_await(s, "outer_error", Msg("error"))

\* the send of session_created returns (create_agent is entered and awaits
\* agent.create_user()) or raises
ws_send_created(s) ==
    /\ life_pc # "done"
    /\ ws_pc[s] = "send_created"
    /\ \/ /\ ws_delivered(s, ws_out[s])
          /\ ws_await(s, "create_agent", NoMsg)
       \/ /\ ws_gone(s)
          /\ ws_outer_except(s)
    /\ UNCHANGED <<ws_data, ws_texts, task, task_cancel, ACTIVE_SESSIONS, BACKGROUND_TASKS,
                   stored>>
    /\ ws_unchanged

\* mutant: agent_ready is not sent, the message loop starts at once
ws_store_noready(s) ==
    /\ ACTIVE_SESSIONS' = ACTIVE_SESSIONS \cup {s}
    /\ BACKGROUND_TASKS' = BACKGROUND_TASKS \cup {s}
    /\ task' = [task EXCEPT ![s] = "pending"]
    /\ stored' = [stored EXCEPT ![s] = {"ACTIVE_SESSIONS", "BACKGROUND_TASKS"}]
    /\ ws_await(s, "receive", NoMsg)

\* create_agent returned: the agent is stored, the worker task is created and
\* stored, and the send of agent_ready is awaited
ws_store(s) ==
    /\ ACTIVE_SESSIONS' = ACTIVE_SESSIONS \cup {s}
    /\ BACKGROUND_TASKS' = BACKGROUND_TASKS \cup {s}
    /\ task' = [task EXCEPT ![s] = "pending"]
    /\ stored' = [stored EXCEPT ![s] = {"ACTIVE_SESSIONS", "BACKGROUND_TASKS"}]
    /\ ws_await(s, "send_ready", agent_ready(s))

\* create_agent returns or raises
ws_create_agent(s) ==
    /\ life_pc # "done"
    /\ ws_pc[s] = "create_agent"
    /\ \/ ws_store(s)
       \/ /\ ws_outer_except(s)
          /\ UNCHANGED <<ACTIVE_SESSIONS, BACKGROUND_TASKS, task, stored>>
    /\ UNCHANGED <<ws_open, ws_sent, ws_data, ws_texts, task_cancel>>
    /\ ws_unchanged

\* the send of agent_ready returns (the message loop awaits receive_text) or raises
ws_send_ready(s) ==
    /\ life_pc # "done"
    /\ ws_pc[s] = "send_ready"
    /\ \/ /\ ws_delivered(s, ws_out[s])
          /\ ws_await(s, "receive", NoMsg)
       \/ /\ ws_gone(s)
          /\ ws_outer_except(s)
    /\ UNCHANGED <<ws_data, ws_texts, task, task_cancel, ACTIVE_SESSIONS, BACKGROUND_TASKS,
                   stored>>
    /\ ws_unchanged

\* mutant: 'status' answers 'running' whatever the task's state
reply_always_running(s, data) ==
    IF data = "ping" THEN Msg("pong")
    ELSE IF data = "status"
    THEN [Msg("status") EXCEPT !.session_id = s, !.worker_status = "running"]
    ELSE IF data = "disconnect" THEN Msg("disconnecting")
    ELSE [Msg("message_received") EXCEPT !.your_message = data]

\* the direct reply to a text
reply(s, data) ==
    IF data = "ping" THEN Msg("pong")
    ELSE IF data = "status"
    THEN [Msg("status") EXCEPT !.session_id = s,
                               !.worker_status = IF ~done(s) THEN "running" ELSE "stopped"]
    ELSE IF data = "disconnect" THEN Msg("disconnecting")
    ELSE [Msg("message_received") EXCEPT !.your_message = data]

\* receive_text returns a text (its reply is built and the send awaited), raises
\* WebSocketDisconnect (break), or raises another Exception (the send of an
\* error message is awaited)
ws_receive(s) ==
    /\ life_pc # "done"
    /\ ws_pc[s] = "receive"
    /\ \/ /\ ws_open[s]
          /\ ws_texts[s] < MaxTexts
          /\ ws_texts' = [ws_texts EXCEPT ![s] = @ + 1]
          /\ \E d \in Texts : /\ ws_data' = [ws_data EXCEPT ![s] = d]
                              /\ ws_await(s, "send_reply", reply(s, d))
          /\ UNCHANGED <<ws_open, ws_sent, task_cancel, ACTIVE_SESSIONS, BACKGROUND_TASKS>>
       \/ /\ ws_gone(s)
          /\ ws_finally(s)
          /\ UNCHANGED ws_texts
       \/ /\ ws_open[s]
          /\ ws_await(s, "send_loop_error", Msg("error"))
          /\ UNCHANGED <<ws_open, ws_sent, ws_data, ws_texts, task_cancel, ACTIVE_SESSIONS,
                         BACKGROUND_TASKS>>
    /\ UNCHANGED <<task, stored>>
    /\ ws_unchanged

\* a send of the message loop raises: WebSocketDisconnect (break), or another
\* Exception (the send of an error message is awaited)
ws_loop_send_raises(s) ==
    /\ ws_gone(s)
    /\ \/ ws_finally(s)
       \/ /\ ws_await(s, "send_loop_error", Msg("error"))
          /\ UNCHANGED <<ws_data, task_cancel, ACTIVE_SESSIONS, BACKGROUND_TASKS>>

\* the send of the reply returns (break after 'disconnecting'; else the check of
\* task.done(), and the next receive_text or the send of worker_completed) or raises
ws_send_reply(s) ==
    /\ life_pc # "done"
    /\ ws_pc[s] = "send_reply"
    /\ \/ /\ ws_delivered(s, ws_out[s])
          /\ IF ws_data[s] = "disconnect"
             THEN ws_finally(s)
             ELSE /\ IF done(s)
                     THEN ws_await(s, "send_completed", Msg("worker_completed"))
                     ELSE ws_await(s, "receive", NoMsg)
                  /\ ws_data' = [ws_data EXCEPT ![s] = None]
                  /\ UNCHANGED <<task_cancel, ACTIVE_SESSIONS, BACKGROUND_TASKS>>
       \/ ws_loop_send_raises(s)
    /\ UNCHANGED <<task, ws_texts, stored>>
    /\ ws_unchanged

\* the send of worker_completed returns (break) or raises
ws_send_completed(s) ==
    /\ life_pc # "done"
    /\ ws_pc[s] = "send_completed"
    /\ \/ /\ ws_delivered(s, ws_out[s])
          /\ ws_finally(s)
       \/ ws_loop_send_raises(s)
    /\ UNCHANGED <<task, ws_texts, stored>>
    /\ ws_unchanged

\* the send of the message loop's error message returns (break) or raises (outer except)
ws_send_loop_error(s) ==
    /\ life_pc # "done"
    /\ ws_pc[s] = "send_loop_error"
    /\ \/ /\ ws_delivered(s, ws_out[s])
          /\ ws_finally(s)
       \/ /\ ws_gone(s)
          /\ ws_outer_except(s)
          /\ UNCHANGED <<ws_data, task_cancel, ACTIVE_SESSIONS, BACKGROUND_TASKS>>
    /\ UNCHANGED <<task, ws_texts, stored>>
    /\ ws_unchanged

\* the outer except clause's send and close return, or raise (except: pass)
ws_outer_error(s) ==
    /\ life_pc # "done"
    /\ ws_pc[s] = "outer_error"
    /\ \/ ws_delivered(s, ws_out[s])
       \/ ws_gone(s)
    /\ ws_finally(s)
    /\ UNCHANGED <<task, ws_texts, stored>>
    /\ ws_unchanged

\* the finally block's await of the cancelled task returns or raises
\* CancelledError (pass); both maps are popped
ws_await_task(s) ==
    /\ life_pc # "done"
    /\ ws_pc[s] = "await_task"
    /\ done(s)
    /\ ACTIVE_SESSIONS' = ACTIVE_SESSIONS \ {s}
    /\ BACKGROUND_TASKS' = BACKGROUND_TASKS \ {s}
    /\ ws_pc' = [ws_pc EXCEPT ![s] = "returned"]
    /\ UNCHANGED <<ws_open, ws_sent, ws_data, ws_out, ws_texts, task, task_cancel, stored>>
    /\ ws_unchanged

(***************************************************************************)
(* DELETE /sessions/{session_id}.                                          *)
(***************************************************************************)
\* `if agent:` with the task dealt with: agent.finish() is called and awaited;
\* without an agent the task is popped and the answer is 'terminated'
delete_cleanup_agent(s, agent) ==
    IF agent
    THEN /\ finish_called' = finish_called \cup {s}
         /\ del_pc' = [del_pc EXCEPT ![s] = "await_finish"]
         /\ del_resp' = [del_resp EXCEPT ![s] = None]
         /\ UNCHANGED <<ACTIVE_SESSIONS, BACKGROUND_TASKS>>
    ELSE /\ BACKGROUND_TASKS' = BACKGROUND_TASKS \ {s}
         /\ del_pc' = [del_pc EXCEPT ![s] = "idle"]
         /\ del_resp' = [del_resp EXCEPT ![s] = "terminated"]
         /\ UNCHANGED <<ACTIVE_SESSIONS, finish_called>>

\* mutant: the task is cancelled but not awaited
delete_session_noawait(s) ==
    /\ life_pc = "serving"
    /\ del_pc[s] = "idle"
    /\ del_local' = [del_local EXCEPT ![s] = [agent |-> s \in ACTIVE_SESSIONS,
                                              task |-> s \in BACKGROUND_TASKS]]
    /\ IF s \notin ACTIVE_SESSIONS /\ s \notin BACKGROUND_TASKS
       THEN /\ del_resp' = [del_resp EXCEPT ![s] = "404"]
            /\ UNCHANGED <<del_pc, task_cancel, finish_called, ACTIVE_SESSIONS,
                           BACKGROUND_TASKS>>
       ELSE /\ task_cancel' = [task_cancel EXCEPT ![s] =
                                  @ \/ (s \in BACKGROUND_TASKS /\ ~done(s))]
            /\ delete_cleanup_agent(s, s \in ACTIVE_SESSIONS)
    /\ del_unchanged

\* the request arrives (del_resp: not answered yet): the two lookups, 404, or
\* the cancel of a running task
delete_session(s) ==
    /\ life_pc = "serving"
    /\ del_pc[s] = "idle"
    /\ del_local' = [del_local EXCEPT ![s] = [agent |-> s \in ACTIVE_SESSIONS,
                                              task |-> s \in BACKGROUND_TASKS]]
    /\ IF s \notin ACTIVE_SESSIONS /\ s \notin BACKGROUND_TASKS
       THEN /\ del_resp' = [del_resp EXCEPT ![s] = "404"]
            /\ UNCHANGED <<del_pc, task_cancel, finish_called, ACTIVE_SESSIONS,
                           BACKGROUND_TASKS>>
       ELSE IF s \in BACKGROUND_TASKS /\ ~done(s)
       THEN /\ task_cancel' = [task_cancel EXCEPT ![s] = TRUE]
            /\ del_pc' = [del_pc EXCEPT ![s] = "await_task"]
            /\ del_resp' = [del_resp EXCEPT ![s] = None]
            /\ UNCHANGED <<finish_called, ACTIVE_SESSIONS, BACKGROUND_TASKS>>
       ELSE /\ delete_cleanup_agent(s, s \in ACTIVE_SESSIONS)
            /\ UNCHANGED task_cancel
    /\ del_unchanged

\* the await of the cancelled task returns or raises CancelledError (pass)
delete_await_task(s) ==
    /\ life_pc # "done"
    /\ del_pc[s] = "await_task"
    /\ done(s)
    /\ delete_cleanup_agent(s, del_local[s].agent)
    /\ UNCHANGED <<del_local, task_cancel>>
    /\ del_unchanged

\* agent.finish() returns (both pops, 'terminated') or raises (500)
delete_await_finish(s) ==
    /\ life_pc # "done"
    /\ del_pc[s] = "await_finish"
    /\ del_pc' = [del_pc EXCEPT ![s] = "idle"]
    /\ \/ /\ ACTIVE_SESSIONS' = ACTIVE_SESSIONS \ {s}
          /\ BACKGROUND_TASKS' = BACKGROUND_TASKS \ {s}
          /\ del_resp' = [del_resp EXCEPT ![s] = "terminated"]
       \/ /\ del_resp' = [del_resp EXCEPT ![s] = "500"]
          /\ UNCHANGED <<ACTIVE_SESSIONS, BACKGROUND_TASKS>>
    /\ UNCHANGED <<del_local, task_cancel, finish_called>>
    /\ del_unchanged

(***************************************************************************)
(* The lifespan shutdown block.                                            *)
(***************************************************************************)
\* the second loop from the sessions `rest` of its snapshot on: the next one
\* still stored is popped and its agent.finish() awaited; the others are
\* skipped; with none left the block is through
lifespan_cleanup_sessions(rest) ==
    /\ UNCHANGED <<task_cancel, life_tasks>>
    /\ IF rest \cap ACTIVE_SESSIONS # {}
       THEN \E s \in rest \cap ACTIVE_SESSIONS :
              /\ ACTIVE_SESSIONS' = ACTIVE_SESSIONS \ {s}
              /\ finish_called' = finish_called \cup {s}
              /\ life_cur' = s
              /\ life_sessions' = rest \ {s}
              /\ life_pc' = "await_finish"
       ELSE /\ life_pc' = "done"
            /\ life_cur' = 0
            /\ life_sessions' = {}
            /\ UNCHANGED <<ACTIVE_SESSIONS, finish_called>>

\* the first loop from the items `rest` of its snapshot on: the next task that
\* is not done is cancelled and awaited; done ones are skipped; with none left
\* the second loop starts on a snapshot of the keys of ACTIVE_SESSIONS
lifespan_cancel_tasks(rest) ==
    IF \E s \in rest : ~done(s)
    THEN /\ \E s \in {r \in rest : ~done(r)} :
              /\ task_cancel' = [task_cancel EXCEPT ![s] = TRUE]
              /\ life_cur' = s
              /\ life_tasks' = rest \ {s}
         /\ life_pc' = "await_task"
         /\ UNCHANGED <<ACTIVE_SESSIONS, finish_called, life_sessions>>
    ELSE lifespan_cleanup_sessions(ACTIVE_SESSIONS)

\* shutdown begins
lifespan_shutdown ==
    /\ life_pc = "serving"
    /\ lifespan_cancel_tasks(BACKGROUND_TASKS)
    /\ life_unchanged

\* the await of a cancelled task raises CancelledError (logged) or returns
lifespan_await_task ==
    /\ life_pc = "await_task"
    /\ done(life_cur)
    /\ lifespan_cancel_tasks(life_tasks)
    /\ life_unchanged

\* agent.finish() returns or raises an Exception (logged)
lifespan_await_finish ==
    /\ life_pc = "await_finish"
    /\ lifespan_cleanup_sessions(life_sessions)
    /\ life_unchanged

\* both servers freshly started
Init == InitMain /\ InitApp

NextApp ==
    \/ \E s \in Sessions : ws_connect(s)
    \/ \E s \in Sessions : ws_send_created(s)
    \/ \E s \in Sessions : ws_create_agent(s)
    \/ \E s \in Sessions : ws_send_ready(s)
    \/ \E s \in Sessions : ws_receive(s)
    \/ \E s \in Sessions : ws_send_reply(s)
    \/ \E s \in Sessions : ws_send_completed(s)
    \/ \E s \in Sessions : ws_send_loop_error(s)
    \/ \E s \in Sessions : ws_outer_error(s)
    \/ \E s \in Sessions : ws_await_task(s)
    \/ \E s \in Sessions : worker_start(s)
    \/ \E s \in Sessions : worker_step(s)
    \/ \E s \in Sessions : worker_error(s)
    \/ \E s \in Sessions : worker_cancelled(s)
    \/ \E s \in Sessions : worker_cleanup(s)
    \/ \E s \in Sessions : delete_session(s)
    \/ \E s \in Sessions : delete_await_task(s)
    \/ \E s \in Sessions : delete_await_finish(s)
    \/ lifespan_shutdown
    \/ lifespan_await_task
    \/ lifespan_await_finish

SpecApp == Init /\ [][NextApp]_vars

(***************************************************************************)
(* The two state machines.                                                 *)
(***************************************************************************)
NextMain ==
    \/ \E c \in CallIds, a \in AgentTypes, t \in CallTypes : create_session_begin(c, a, t)
    \/ \E c \in CallIds : create_session_create_user(c)
    \/ \E c \in CallIds : create_session_create_call(c)
    \/ \E c \in CallIds : create_session_store(c)
    \/ root
    \/ \E c \in CallIds : get_session_info(c)
    \/ list_sessions
    \/ \E c \in CallIds : end_session(c)
    \/ main_lifespan_shutdown

SpecMain == Init /\ [][NextMain]_vars

\* the event loop runs every handler that is ready, and requests keep coming
\* for as long as the server is up
FairSpecMain ==
    /\ SpecMain
    /\ WF_vars(\E c \in CallIds : create_session_create_user(c))
    /\ WF_vars(\E c \in CallIds : create_session_create_call(c))
    /\ WF_vars(\E c \in CallIds : create_session_store(c))
    /\ WF_vars(NextMain)

(***************************************************************************)
(* Claims about main.py.                                                   *)
(***************************************************************************)
Created == {c \in CallIds : post_pc[c] = "returned_201"}

Live == Created \ deleted

\* C3: every session created by a POST has its agent started: for the agent
\* stored in active_sessions, join_*_call is eventually invoked (a server that
\* is shut down first is excused).
C3_AgentEventuallyJoined ==
    \A c \in CallIds :
        (post_pc[c] = "returned_201") ~> ("join_call" \in sdk_calls[c] \/ ~main_up)

\* C5: DELETE /session/{call_id} answers 404 and leaves active_sessions
\* unchanged when call_id is absent; when present it removes exactly that
\* entry, returns the stored agent_type, and leaves every other entry as it was.
C5_EndSessionFrame ==
    [][\A c \in CallIds : end_session(c) =>
          /\ main_resp'.op = "end_session" /\ main_resp'.call_id = c
          /\ ~Has(active_sessions, c) =>
                /\ main_resp'.status = 404
                /\ active_sessions' = active_sessions
          /\ Has(active_sessions, c) =>
                /\ main_resp'.status = 200
                /\ main_resp'.agent_type = Get(active_sessions, c).agent_type
                /\ Keys(active_sessions') = Keys(active_sessions) \ {c}
                /\ Len(active_sessions') = Len(active_sessions) - 1
                /\ \A d \in Keys(active_sessions') :
                      Get(active_sessions', d) = Get(active_sessions, d)]_vars

\* C5 witness: a DELETE answered 200 for one session while another is still stored
C5_Witness ==
    /\ main_resp.op = "end_session" /\ main_resp.status = 200
    /\ main_resp.call_id \in deleted
    /\ active_sessions # <<>>

\* C6: ending a session with DELETE releases its resources: the session's
\* agent has been finished when the session is ended.
C6_EndSessionFinishesAgent ==
    \A c \in deleted : "finish" \in sdk_calls[c]

C8_GetRoundTrip ==
    [][\A c \in CallIds :
          /\ get_session_info(c) =>
                IF c \in Live
                THEN /\ main_resp'.status = 200 /\ main_resp'.call_id = c
                     /\ main_resp'.call_type = post_req[c].call_type
                     /\ main_resp'.agent_type = post_req[c].agent_type
                     /\ main_resp'.session_status = "active"
                ELSE main_resp'.status = 404
          /\ (end_session(c) /\ c \in deleted) => main_resp'.status = 404]_vars

\* C8 witness: a GET answered 404 for a session that was created and then deleted
C8_Witness ==
    /\ main_resp.op = "get_session_info" /\ main_resp.status = 404
    /\ main_resp.call_id \in Created \cap deleted

C1_ReturnedMeansCleanedUp ==
    \A s \in Sessions : ws_pc[s] = "returned" =>
        /\ s \notin ACTIVE_SESSIONS
        /\ s \notin BACKGROUND_TASKS
        /\ task[s] # "none" => done(s)

\* C1 witness: the endpoint returned after it had cancelled a worker that was
\* running, and the worker's task ended cancelled
C1_Witness ==
    \E s \in Sessions :
        /\ ws_pc[s] = "returned"
        /\ done(s) /\ task_outcome[s] = "cancelled"
        /\ s \in finish_called

\* C2: when the lifespan shutdown block has finished, every background task is
\* done and both ACTIVE_SESSIONS and BACKGROUND_TASKS are empty.
C2_ShutdownCleansEverything ==
    life_pc = "done" =>
        /\ \A s \in Sessions : task[s] # "none" => done(s)
        /\ ACTIVE_SESSIONS = {}
        /\ BACKGROUND_TASKS = {}

\* C4: DELETE /sessions/{session_id} answers 404 exactly when the id is in
\* neither map; once it has answered 'terminated' the worker task is done,
\* agent.finish() has been called on the session's agent, and the id is in
\* neither map.
C4_DeleteTerminates ==
    [][\A s \in Sessions :
          /\ delete_session(s) =>
                (del_resp'[s] = "404" <=>
                    (s \notin ACTIVE_SESSIONS /\ s \notin BACKGROUND_TASKS))
          /\ del_resp'[s] = "terminated" =>
                /\ done(s)'
                /\ s \in finish_called'
                /\ s \notin ACTIVE_SESSIONS'
                /\ s \notin BACKGROUND_TASKS']_vars

\* C4 witness: DELETE answered 'terminated' for a session whose worker it had
\* to cancel
C4_Witness ==
    \E s \in Sessions :
        /\ del_resp[s] = "terminated"
        /\ task_outcome[s] = "cancelled"

\* C10: on every connection the first message sent is session_created (status
\* initializing); agent_ready (status ready, same session_id) comes after it and
\* only once the agent was stored in ACTIVE_SESSIONS and the task in
\* BACKGROUND_TASKS; no pong, status, message_received or worker_completed
\* message precedes agent_ready.
C10_HandshakeOrder ==
    \A s \in Sessions :
        /\ ws_sent[s] # <<>> => ws_sent[s][1] = session_created(s)
        /\ \A i \in 1..Len(ws_sent[s]) :
              /\ ws_sent[s][i].type = "agent_ready" =>
                    /\ i > 1
                    /\ ws_sent[s][i] = agent_ready(s)
                    /\ stored[s] = {"ACTIVE_SESSIONS", "BACKGROUND_TASKS"}
              /\ ws_sent[s][i].type \in {"pong", "status", "message_received",
                                         "worker_completed"} =>
                    \E j \in 1..(i - 1) : ws_sent[s][j].type = "agent_ready"

\* C10 witness: a connection that got session_created, agent_ready and a pong
C10_Witness ==
    \E s \in Sessions :
        /\ Len(ws_sent[s]) = 3
        /\ ws_sent[s][2] = agent_ready(s)
        /\ ws_sent[s][3].type = "pong"

\* C11: in the message loop every client text gets exactly one direct reply
\* chosen by its content: 'ping' gets pong; 'status' gets status with
\* worker_status 'running' exactly when the worker task is not done and
\* 'stopped' otherwise; 'disconnect' gets disconnecting, after which nothing
\* more is sent on the connection; any other text gets message_received with
\* your_message equal to the text.  Direct replies are sent nowhere else, so
\* there is one per text once the loop is back at receive_text.
C11_DirectReplies ==
    [][\A s \in Sessions :
          LET direct == {"pong", "status", "disconnecting", "message_received"}
              replies(log) == Cardinality({i \in 1..Len(log) : log[i].type \in direct})
              d == ws_data'[s]
              out == ws_out'[s]
          IN  /\ (ws_pc[s] = "receive" /\ ws_pc'[s] = "send_reply") =>
                    /\ d = "ping" => out.type = "pong"
                    /\ d = "status" =>
                          /\ out.type = "status"
                          /\ out.session_id = s
                          /\ out.worker_status = "running" <=> task[s] # "done"
                          /\ out.worker_status = "stopped" <=> task[s] = "done"
                    /\ d = "disconnect" => out.type = "disconnecting"
                    /\ d \notin {"ping", "status", "disconnect"} =>
                          /\ out.type = "message_received"
                          /\ out.your_message = d
              /\ (ws_pc[s] = "send_reply" /\ ws_sent'[s] # ws_sent[s]) =>
                    ws_sent'[s] = Append(ws_sent[s], ws_out[s])
              /\ (ws_pc[s] # "send_reply" /\ ws_sent'[s] # ws_sent[s]) =>
                    ws_sent'[s][Len(ws_sent'[s])].type \notin direct
              /\ (ws_sent[s] # <<>> /\ ws_sent[s][Len(ws_sent[s])].type = "disconnecting") =>
                    ws_sent'[s] = ws_sent[s]
              /\ replies(ws_sent'[s]) <= ws_texts'[s]
              /\ ws_pc'[s] = "receive" => replies(ws_sent'[s]) = ws_texts'[s]]_vars

\* C11 witness: a connection whose 'hello' was echoed while the worker ran and
\* whose 'status' was answered 'stopped' after the worker had ended
C11_Witness ==
    \E s \in Sessions :
        \E i, j \in 1..Len(ws_sent[s]) :
            /\ i < j
            /\ ws_sent[s][i].type = "message_received"
            /\ ws_sent[s][i].your_message = "hello"
            /\ ws_sent[s][j].type = "status"
            /\ ws_sent[s][j].worker_status = "stopped"

\* C12: once agent_worker has obtained its agent, every way out of the try
\* body (normal end, an exception, cancellation) calls agent.finish() in the
\* finally block; when that finish() is over, however it ended and even if the
\* task was cancelled meanwhile, session_id is in neither ACTIVE_SESSIONS nor
\* BACKGROUND_TASKS and the task is done; the task ends cancelled exactly when
\* the body was left by cancellation and ends normally otherwise.
C12_WorkerExit ==
    [][\A s \in Sessions :
          LET body == {"create_call", "join", "open_demo", "simple_response", "finish"}
              calls == worker_calls'[s]
          IN  /\ (task[s] \in body /\ task'[s] \notin body) =>
                    /\ task'[s] = "final_finish"
                    /\ Len(calls) = Len(worker_calls[s]) + 1
                    /\ calls[Len(calls)].op = "finish"
                    /\ calls[Len(calls)].site = "finally"
                    /\ task_outcome'[s] = IF task_cancel[s] THEN "cancelled" ELSE "returned"
              /\ (task[s] = "final_finish" /\ task'[s] # "final_finish") =>
                    /\ task'[s] = "done"
                    /\ s \notin ACTIVE_SESSIONS'
                    /\ s \notin BACKGROUND_TASKS'
                    /\ task_outcome'[s] = task_outcome[s]
              /\ (task[s] # "done" /\ task'[s] = "done" /\ worker_calls[s] # <<>>) =>
                    task[s] = "final_finish"
              /\ task[s] = "done" => task_outcome'[s] = task_outcome[s]]_vars

\* C12 witness: agent.join raised, and the task was cancelled by the WebSocket
\* cleanup while it awaited the finally block's finish(); the task ended
\* normally with both entries removed
C12_Witness ==
    \E s \in Sessions :
        /\ ws_pc[s] = "await_task"
        /\ done(s)
        /\ task_outcome[s] = "returned"
        /\ Len(worker_calls[s]) = 3
        /\ del_pc[s] = "idle" /\ del_resp[s] = None /\ life_pc = "serving"
        /\ s \notin ACTIVE_SESSIONS /\ s \notin BACKGROUND_TASKS

\* C13: every agent that was stored in ACTIVE_SESSIONS has had agent.finish()
\* called on it at least once by the time its session is no longer in the map,
\* also when the worker task was cancelled before it ran its first step.
C13_RemovedAgentFinished ==
    \A s \in Sessions :
        ("ACTIVE_SESSIONS" \in stored[s] /\ s \notin ACTIVE_SESSIONS) => s \in finish_called

\* C14: the calls of agent_worker's try body are made in the fixed order
\* create_call(call_type, call_id = session_id), join, open_demo,
\* simple_response, finish; a call of the body is made only when every earlier
\* one has returned, so none follows one that failed or was cancelled; and
\* open_demo, simple_response and the body's finish are made while the join
\* context is held.
C14_WorkerOrder ==
    \A s \in Sessions :
        LET calls == worker_calls[s]
            order == <<"create_call", "join", "open_demo", "simple_response", "finish">>
        IN  \A i \in 1..Len(calls) :
                /\ calls[i].site = "try" =>
                      /\ i <= Len(order)
                      /\ calls[i].op = order[i]
                      /\ i > 1 => /\ calls[i - 1].site = "try"
                                  /\ calls[i - 1].result = "returned"
                      /\ calls[i].op \in {"open_demo", "simple_response", "finish"} =>
                            calls[i].held
                /\ calls[i].op = "create_call" =>
                      /\ calls[i].call_type = "default"
                      /\ calls[i].call_id = s
                /\ calls[i].result \in {"raised", "cancelled"} =>
                      \A j \in (i + 1)..Len(calls) : calls[j].site # "try"

\* C14 witness: a worker whose open_demo was cancelled inside the join context
\* and which made no further call of the body, only the finally block's finish
C14_Witness ==
    \E s \in Sessions :
        /\ done(s)
        /\ Len(worker_calls[s]) = 4
        /\ worker_calls[s][3].op = "open_demo"
        /\ worker_calls[s][3].held
        /\ worker_calls[s][3].result = "cancelled"
        /\ worker_calls[s][4].site = "finally"
====
